---- MODULE Spec2Model ----
(***************************************************************************)
(* A model of the connectivity core of cryptofiend:                        *)
(*   - exchanges/orderbook/orderbook.go : the Orderbooks store             *)
(*   - exchanges/binance/binance.go     : SendHTTPRequest and              *)
(*                                        SendRateLimitedHTTPRequest       *)
(* Handlers are pure operators over the state they touch; the sequential   *)
(* specifications apply a whole handler in one action, the concurrent ones *)
(* split a handler at the points where another goroutine can interleave.   *)
(***************************************************************************)
EXTENDS Integers, Sequences, FiniteSets, TLC

VARIABLES
    orderbooks,   \* Orderbooks.orderbooks: first -> second -> type -> Base
    latest,       \* history: the bids/asks last upserted per key triple
    storeRet,     \* the last store call made and what it returned
    now,          \* the wall clock read by time.Now()
    m,            \* Orderbooks.m: the goroutine holding the mutex, or NoOwner
    pc,           \* position of each goroutine inside its store call
    call,         \* the arguments and result of each goroutine's store call
    b,            \* the Binance client: its exchange.Base configuration
    reqRet,       \* the last request made through the client and what it returned
    rateLimits,   \* Binance.rateLimits: method+path -> rateLimitInfo
    rlRet,        \* the last rate-limited call and what it did
    lpc,          \* position of each goroutine inside SendRateLimitedHTTPRequest
    frame         \* the locals of each goroutine's rate-limited call

storeSide == <<orderbooks, latest, storeRet, m, pc, call>>
clientVars == <<b, reqRet, rateLimits, rlRet, lpc, frame>>
vars == <<orderbooks, latest, storeRet, now, m, pc, call, b, reqRet, rateLimits,
          rlRet, lpc, frame>>

----------------------------------------------------------------------------
(* Generic map helpers: a Go map is a function over its present keys.      *)

EmptyMap == <<>>

MapPut(mp, k, v) == [x \in (DOMAIN mp) \cup {k} |-> IF x = k THEN v ELSE mp[x]]

----------------------------------------------------------------------------
(* currency/pair: CurrencyItem is a string, here a sequence of characters. *)

UpperChars == <<"B", "T", "C", "E", "H", "U", "S", "D">>
LowerChars == <<"b", "t", "c", "e", "h", "u", "s", "d">>

Chars == {UpperChars[i] : i \in DOMAIN UpperChars}
            \cup {LowerChars[i] : i \in DOMAIN LowerChars} \cup {"/", "-", "_", "x"}

\* strings.ToLower / strings.ToUpper on one character
LowerTable ==
    [ch \in Chars |->
        IF \E i \in DOMAIN UpperChars : UpperChars[i] = ch
        THEN LowerChars[CHOOSE i \in DOMAIN UpperChars : UpperChars[i] = ch]
        ELSE ch]

UpperTable ==
    [ch \in Chars |->
        IF \E i \in DOMAIN LowerChars : LowerChars[i] = ch
        THEN UpperChars[CHOOSE i \in DOMAIN LowerChars : LowerChars[i] = ch]
        ELSE ch]

ToLower(ch) == LowerTable[ch]

ToUpper(ch) == UpperTable[ch]

\* CurrencyItem.Lower / CurrencyItem.Upper
Lower(currency) == [i \in DOMAIN currency |-> ToLower(currency[i])]
Upper(currency) == [i \in DOMAIN currency |-> ToUpper(currency[i])]

\* CurrencyPair.FormatPair(delimiter, uppercase)
FormatPair(p, delimiter, uppercase) ==
    [Delimiter |-> delimiter,
     FirstCurrency |-> IF uppercase THEN Upper(p.FirstCurrency) ELSE Lower(p.FirstCurrency),
     SecondCurrency |-> IF uppercase THEN Upper(p.SecondCurrency) ELSE Lower(p.SecondCurrency)]

\* CurrencyPair.Pair(): first + delimiter + second
Pair(p) == p.FirstCurrency \o p.Delimiter \o p.SecondCurrency

GetFirstCurrency(p) == p.FirstCurrency
GetSecondCurrency(p) == p.SecondCurrency

----------------------------------------------------------------------------
(* exchanges/orderbook                                                     *)

ErrPrimaryCurrencyNotFound == "Error primary currency for orderbook not found."
ErrSecondaryCurrencyNotFound == "Error secondary currency for orderbook not found."
Spot == "SPOT"
Margin == "MARGIN"

NoError == <<>>

ZeroPair == [Delimiter |-> <<>>, FirstCurrency |-> <<>>, SecondCurrency |-> <<>>]

\* Base{}: the zero value of the orderbook base
ZeroBase ==
    [Pair |-> ZeroPair, CurrencyPair |-> <<>>, Bids |-> <<>>, Asks |-> <<>>,
     LastUpdated |-> 0]

\* formatCurrencyPair formatting to upper case.
formatCurrencyPairUpper(p) == FormatPair(p, <<"/">>, TRUE)

formatCurrencyPair(p) == FormatPair(p, <<"/">>, FALSE)

formatCurrency(currency) == Lower(currency)

FirstCurrencyExists(books, currency) == formatCurrency(currency) \in DOMAIN books

SecondCurrencyExists(books, p) ==
    LET fp == formatCurrencyPair(p)
    IN  /\ GetFirstCurrency(fp) \in DOMAIN books
        /\ GetSecondCurrency(fp) \in DOMAIN books[GetFirstCurrency(fp)]

\* A read of a Go map at a key it may lack yields the zero value.
TypeLookup(byType, orderbookType) ==
    IF orderbookType \in DOMAIN byType THEN byType[orderbookType] ELSE ZeroBase

\* GetOrderbook with the book-type miss treated like a pair miss.
GetOrderbookTypeMissFails(books, p, orderbookType) ==
    LET fp == formatCurrencyPair(p)
    IN  IF ~FirstCurrencyExists(books, GetFirstCurrency(fp))
        THEN [book |-> ZeroBase, err |-> <<ErrPrimaryCurrencyNotFound>>]
        ELSE IF \/ ~SecondCurrencyExists(books, fp)
                \/ orderbookType \notin
                       DOMAIN books[GetFirstCurrency(fp)][GetSecondCurrency(fp)]
        THEN [book |-> ZeroBase,
              err |-> <<ErrSecondaryCurrencyNotFound, GetFirstCurrency(fp),
                        GetSecondCurrency(fp)>>]
        ELSE [book |-> books[GetFirstCurrency(fp)][GetSecondCurrency(fp)][orderbookType],
              err |-> NoError]

GetOrderbook(books, p, orderbookType) ==
    LET fp == formatCurrencyPair(p)
    IN  IF ~FirstCurrencyExists(books, GetFirstCurrency(fp))
        THEN [book |-> ZeroBase, err |-> <<ErrPrimaryCurrencyNotFound>>]
        ELSE IF ~SecondCurrencyExists(books, fp)
        THEN [book |-> ZeroBase,
              err |-> <<ErrSecondaryCurrencyNotFound, GetFirstCurrency(fp),
                        GetSecondCurrency(fp)>>]
        ELSE [book |-> TypeLookup(books[GetFirstCurrency(fp)][GetSecondCurrency(fp)],
                                  orderbookType),
              err |-> NoError]

\* What ProcessOrderbook stores: the caller's book with CurrencyPair and
\* LastUpdated overwritten.
Stamped(fp, orderbookNew, t) ==
    [orderbookNew EXCEPT !.CurrencyPair = Pair(fp), !.LastUpdated = t]

\* ProcessOrderbook keyed by the symbols as the caller presented them.
ProcessOrderbookRawKeys(books, p, orderbookNew, orderbookType, t) ==
    LET new == Stamped(formatCurrencyPair(p), orderbookNew, t)
    IN  IF p.FirstCurrency \in DOMAIN books
        THEN IF p.SecondCurrency \notin DOMAIN books[p.FirstCurrency]
             THEN MapPut(books, p.FirstCurrency,
                         MapPut(books[p.FirstCurrency], p.SecondCurrency,
                                MapPut(EmptyMap, orderbookType, new)))
             ELSE MapPut(books, p.FirstCurrency,
                         MapPut(books[p.FirstCurrency], p.SecondCurrency,
                                MapPut(books[p.FirstCurrency][p.SecondCurrency],
                                       orderbookType, new)))
        ELSE MapPut(books, p.FirstCurrency,
                    MapPut(EmptyMap, p.SecondCurrency,
                           MapPut(EmptyMap, orderbookType, new)))

\* ProcessOrderbook creating the base level alone when the base is new,
\* leaving the levels below it to the next upsert.
ProcessOrderbookBaseOnly(books, p, orderbookNew, orderbookType, t) ==
    LET fp == formatCurrencyPair(p)
        new == Stamped(fp, orderbookNew, t)
    IN  IF FirstCurrencyExists(books, GetFirstCurrency(fp))
        THEN IF ~SecondCurrencyExists(books, fp)
             THEN MapPut(books, fp.FirstCurrency,
                         MapPut(books[fp.FirstCurrency], fp.SecondCurrency,
                                MapPut(EmptyMap, orderbookType, new)))
             ELSE MapPut(books, fp.FirstCurrency,
                         MapPut(books[fp.FirstCurrency], fp.SecondCurrency,
                                MapPut(books[fp.FirstCurrency][fp.SecondCurrency],
                                       orderbookType, new)))
        ELSE MapPut(books, fp.FirstCurrency, EmptyMap)

\* ProcessOrderbook putting a fresh quote map under the base whenever the
\* quote is new to it.
ProcessOrderbookFreshBase(books, p, orderbookNew, orderbookType, t) ==
    LET fp == formatCurrencyPair(p)
        new == Stamped(fp, orderbookNew, t)
    IN  IF FirstCurrencyExists(books, GetFirstCurrency(fp)) /\ SecondCurrencyExists(books, fp)
        THEN MapPut(books, fp.FirstCurrency,
                    MapPut(books[fp.FirstCurrency], fp.SecondCurrency,
                           MapPut(books[fp.FirstCurrency][fp.SecondCurrency],
                                  orderbookType, new)))
        ELSE MapPut(books, fp.FirstCurrency,
                    MapPut(EmptyMap, fp.SecondCurrency,
                           MapPut(EmptyMap, orderbookType, new)))

ProcessOrderbook(books, p, orderbookNew, orderbookType, t) ==
    LET fp == formatCurrencyPair(p)
        new == Stamped(fp, orderbookNew, t)
    IN  IF FirstCurrencyExists(books, GetFirstCurrency(fp))
        THEN IF ~SecondCurrencyExists(books, fp)
             THEN MapPut(books, fp.FirstCurrency,
                         MapPut(books[fp.FirstCurrency], fp.SecondCurrency,
                                MapPut(EmptyMap, orderbookType, new)))
             ELSE MapPut(books, fp.FirstCurrency,
                         MapPut(books[fp.FirstCurrency], fp.SecondCurrency,
                                MapPut(books[fp.FirstCurrency][fp.SecondCurrency],
                                       orderbookType, new)))
        ELSE MapPut(books, fp.FirstCurrency,
                    MapPut(EmptyMap, fp.SecondCurrency,
                           MapPut(EmptyMap, orderbookType, new)))

----------------------------------------------------------------------------
(* exchanges/binance: SendHTTPRequest                                      *)

binanceBaseURL == "https://www.binance.com/"
binanceAccountPath == "api/v3/account"
binanceOrderPath == "api/v3/order"
binanceDepthPath == "api/v1/depth"

MethodGet == "GET"
MethodPost == "POST"
MethodDelete == "DELETE"

\* exchange.WarningAuthenticatedRequestWithoutCredentialsSet, a format with
\* one %s for the exchange name
WarningAuthenticatedRequestWithoutCredentialsSet ==
    "WARNING -- Exchange %s authenticated HTTP request called but not supported due to unset/default API keys."

ErrUnmarshalResponse == "failed to unmarshal response"
ErrUnmarshalErrorInfo == "failed to unmarshal error info"

\* url.Values.Encode(): the key=value pairs in the order of their keys.
\* (The values used here need no escaping.)
KeyOrder ==
    <<"icebergQty", "limit", "newClientOrderId", "newOrderRespType", "orderId",
      "origClientOrderId", "price", "quantity", "side", "stopPrice", "symbol",
      "timeInForce", "type">>

Encode(params) ==
    LET keys == SelectSeq(KeyOrder, LAMBDA k : k \in DOMAIN params)
    IN  [i \in DOMAIN keys |-> <<keys[i], params[keys[i]]>>]

\* common.GetHMAC(common.HashSHA256, payload, secret), hex-encoded
HexHMACSHA256(payload, secret) == [hmacSHA256 |-> payload, key |-> secret]

\* common.JSONDecode: fails on a body that is not the JSON it is asked for.
JSONDecodeFails(body) == ~body.wellFormed

NoRequest == [method |-> "", url |-> <<>>, headers |-> EmptyMap, body |-> <<>>]

recvWindow == 5000

\* time.Now().UnixNano() / (1000 * 1000) for a clock that counts seconds
Millis(t) == t * 1000

\* SignedPayload with the signature computed before the time window is
\* appended.
SignedPayloadParamsOnly(payload, secret, t) ==
    LET timeWindow == <<<<"timestamp", ToString(Millis(t))>>,
                        <<"recvWindow", ToString(recvWindow)>>>>
    IN  payload \o timeWindow \o <<<<"signature", HexHMACSHA256(payload, secret)>>>>

SignedPayload(payload, secret, t) ==
    LET timeWindow == <<<<"timestamp", ToString(Millis(t))>>,
                        <<"recvWindow", ToString(recvWindow)>>>>
        toSign == payload \o timeWindow
    IN  toSign \o <<<<"signature", HexHMACSHA256(toSign, secret)>>>>

\* The request handed to common.SendHTTPRequest2.
BuildRequest(client, method, path, params, sign, t) ==
    LET encoded == IF Cardinality(DOMAIN params) > 0 THEN Encode(params) ELSE <<>>
        payload == IF sign THEN SignedPayload(encoded, client.APISecret, t) ELSE encoded
        accept == MapPut(EmptyMap, "Accept", "application/json")
        headers == IF sign THEN MapPut(accept, "X-MBX-APIKEY", client.APIKey) ELSE accept
    IN  IF method = MethodGet
        THEN [method |-> method, url |-> <<binanceBaseURL, path, "?", payload>>,
              headers |-> headers, body |-> <<>>]
        ELSE [method |-> method, url |-> <<binanceBaseURL, path>>,
              headers |-> MapPut(headers, "Content-Type",
                                 "application/x-www-form-urlencoded"),
              body |-> payload]

\* An interface{} argument: nil, a plain value, a nil pointer, or a pointer
\* to a variable holding elem.
NoValue == "<none>"
NilArg == [kind |-> "nil", elem |-> NoValue]
ValueArg(v) == [kind |-> "value", elem |-> v]
NilPtrArg == [kind |-> "nilptr", elem |-> NoValue]
PtrArg(v) == [kind |-> "ptr", elem |-> v]

\* common.JSONDecode(body, &result) on a good body: the value lands in the
\* variable result points to, if it points to one.
Decoded(result, value) ==
    IF result.kind = "ptr" THEN [result EXCEPT !.elem = value] ELSE result

\* HandleResponse with one text for both decode failures and the status
\* code dropped.
HandleResponseOneDecodeError(resp, result) ==
    IF resp.err # NoError
    THEN [code |-> 0, err |-> resp.err, result |-> result]
    ELSE IF 200 <= resp.statusCode /\ resp.statusCode <= 299
    THEN IF JSONDecodeFails(resp.body)
         THEN [code |-> 0, err |-> <<ErrUnmarshalResponse>>, result |-> result]
         ELSE [code |-> 0, err |-> NoError, result |-> Decoded(result, resp.body.value)]
    ELSE IF JSONDecodeFails(resp.body)
         THEN [code |-> 0, err |-> <<ErrUnmarshalResponse>>, result |-> result]
         ELSE [code |-> resp.body.code, err |-> <<resp.body.msg>>, result |-> result]

\* How SendHTTPRequest turns the transport's answer into (code, err, result).
HandleResponse(resp, result) ==
    IF resp.err # NoError
    THEN [code |-> 0, err |-> resp.err, result |-> result]
    ELSE IF 200 <= resp.statusCode /\ resp.statusCode <= 299
    THEN IF JSONDecodeFails(resp.body)
         THEN [code |-> resp.statusCode, err |-> <<ErrUnmarshalResponse>>,
               result |-> result]
         ELSE [code |-> 0, err |-> NoError, result |-> Decoded(result, resp.body.value)]
    ELSE IF JSONDecodeFails(resp.body)
         THEN [code |-> 0, err |-> <<ErrUnmarshalErrorInfo>>, result |-> result]
         ELSE [code |-> resp.body.code, err |-> <<resp.body.msg>>, result |-> result]

\* The credentials check that opens SendHTTPRequest.
RejectsForCredentials(client, sign) == ~client.AuthenticatedAPISupport

\* SendHTTPRequest(method, path, params, sign, result) with the transport
\* answering resp: the code and error returned, whether a request went out,
\* the request, and what result holds afterwards.
SendHTTPRequest(client, method, path, params, sign, result, resp, t) ==
    IF RejectsForCredentials(client, sign)
    THEN [code |-> 0,
          err |-> <<WarningAuthenticatedRequestWithoutCredentialsSet, client.Name>>,
          sent |-> FALSE, request |-> NoRequest, result |-> result]
    ELSE LET handled == HandleResponse(resp, result)
         IN  [code |-> handled.code, err |-> handled.err, sent |-> TRUE,
              request |-> BuildRequest(client, method, path, params, sign, t),
              result |-> handled.result]

----------------------------------------------------------------------------
(* exchanges/binance: SendRateLimitedHTTPRequest                           *)

ErrResultNotPointer == "result must be a non-nil pointer"
ErrDefaultNil == "default value must be not be nil"

WindowSeconds == 90

\* &rateLimitInfo{}
ZeroRateLimit == [StartTime |-> 0, RequestCount |-> 0]

\* The key with the method left out.
RateLimitKeyPathOnly(method, path) == path

\* method+path
RateLimitKey(method, path) == method \o path

\* b.rateLimits[method+path], created when absent
RateLimitOf(limits, key) == IF key \in DOMAIN limits THEN limits[key] ELSE ZeroRateLimit

\* The window test with the threshold itself counted as expired.
WindowExpiredAtThreshold(rateLimit, curTimeStamp) ==
    \/ rateLimit.StartTime = 0
    \/ (curTimeStamp - rateLimit.StartTime) >= WindowSeconds

WindowExpired(rateLimit, curTimeStamp) ==
    \/ rateLimit.StartTime = 0
    \/ (curTimeStamp - rateLimit.StartTime) > WindowSeconds

Refreshed(rateLimit, curTimeStamp) ==
    IF WindowExpired(rateLimit, curTimeStamp)
    THEN [StartTime |-> curTimeStamp, RequestCount |-> 0]
    ELSE rateLimit

\* The budget test off by one.
WithinBudgetInclusive(rateLimit, requestsPerMin) ==
    rateLimit.RequestCount <= requestsPerMin

WithinBudget(rateLimit, requestsPerMin) == rateLimit.RequestCount < requestsPerMin

\* SetDefault that takes a pointer default for a missing one.
SetDefaultRejectsPointer(result, defaultValue) ==
    IF result.kind # "ptr"
    THEN [err |-> <<ErrResultNotPointer>>, panicked |-> FALSE, result |-> result]
    ELSE IF defaultValue.kind \in {"nil", "ptr", "nilptr"}
    THEN [err |-> <<ErrDefaultNil>>, panicked |-> FALSE, result |-> result]
    ELSE [err |-> NoError, panicked |-> FALSE,
          result |-> [result EXCEPT !.elem = defaultValue.elem]]

\* The else branch: set result to the default value.
SetDefault(result, defaultValue) ==
    IF result.kind # "ptr"
    THEN [err |-> <<ErrResultNotPointer>>, panicked |-> FALSE, result |-> result]
    ELSE IF defaultValue.kind = "nil"
    THEN [err |-> <<ErrDefaultNil>>, panicked |-> FALSE, result |-> result]
    ELSE IF defaultValue.kind = "nilptr"
    THEN \* dv.Elem() of a nil pointer is the zero Value, and Set panics on it
         [err |-> NoError, panicked |-> TRUE, result |-> result]
    ELSE [err |-> NoError, panicked |-> FALSE,
          result |-> [result EXCEPT !.elem = defaultValue.elem]]

\* The window of an admitted call as SendHTTPRequest finds and leaves it.
Admitted(rateLimit) == [rateLimit EXCEPT !.RequestCount = @ + 1]

\* SendRateLimitedHTTPRequest that gives the slot back when the request fails.
SendRateLimitedRefundingFailures(limits, client, requestsPerMin, method, path, params, result, defaultValue, resp, curTimeStamp) ==
    LET key == RateLimitKey(method, path)
        rateLimit == Refreshed(RateLimitOf(limits, key), curTimeStamp)
    IN  IF WithinBudget(rateLimit, requestsPerMin)
        THEN LET counted == Admitted(rateLimit)
                 r == SendHTTPRequest(client, method, path, params, TRUE, result,
                                      resp, curTimeStamp)
             IN  [limits |-> MapPut(limits, key,
                                    IF r.err = NoError THEN counted ELSE rateLimit),
                  admitted |-> TRUE,
                  sign |-> TRUE, countAtSend |-> counted.RequestCount,
                  sent |-> r.sent, request |-> r.request, code |-> r.code,
                  err |-> r.err, panicked |-> FALSE, result |-> r.result]
        ELSE LET d == SetDefault(result, defaultValue)
             IN  [limits |-> MapPut(limits, key, rateLimit), admitted |-> FALSE,
                  sign |-> FALSE, countAtSend |-> rateLimit.RequestCount,
                  sent |-> FALSE, request |-> NoRequest, code |-> 0,
                  err |-> d.err, panicked |-> d.panicked, result |-> d.result]

SendRateLimitedHTTPRequest(limits, client, requestsPerMin, method, path, params, result, defaultValue, resp, curTimeStamp) ==
    LET key == RateLimitKey(method, path)
        rateLimit == Refreshed(RateLimitOf(limits, key), curTimeStamp)
    IN  IF WithinBudget(rateLimit, requestsPerMin)
        THEN LET counted == Admitted(rateLimit)
                 r == SendHTTPRequest(client, method, path, params, TRUE, result,
                                      resp, curTimeStamp)
             IN  [limits |-> MapPut(limits, key, counted), admitted |-> TRUE,
                  sign |-> TRUE, countAtSend |-> counted.RequestCount,
                  sent |-> r.sent, request |-> r.request, code |-> r.code,
                  err |-> r.err, panicked |-> FALSE, result |-> r.result]
        ELSE LET d == SetDefault(result, defaultValue)
             IN  [limits |-> MapPut(limits, key, rateLimit), admitted |-> FALSE,
                  sign |-> FALSE, countAtSend |-> rateLimit.RequestCount,
                  sent |-> FALSE, request |-> NoRequest, code |-> 0,
                  err |-> d.err, panicked |-> d.panicked, result |-> d.result]

----------------------------------------------------------------------------
(* Inputs of the store calls.                                              *)

BTC == <<"B", "T", "C">>
ETH == <<"E", "T", "H">>
USD == <<"U", "S", "D">>

MkPair(delimiter, first, second) ==
    [Delimiter |-> delimiter, FirstCurrency |-> first, SecondCurrency |-> second]

\* Three pairs, each presented in several case and delimiter styles.
InputPairs ==
    { MkPair(<<>>, BTC, USD),
      MkPair(<<"-">>, <<"B", "t", "c">>, <<"u", "S", "d">>),
      MkPair(<<"_">>, BTC, ETH),
      MkPair(<<"/">>, Lower(BTC), Lower(ETH)),
      MkPair(<<"-">>, ETH, Lower(USD)) }

InputCurrencies ==
    {p.FirstCurrency : p \in InputPairs} \cup {p.SecondCurrency : p \in InputPairs}

BookTypes == {Spot, Margin}

Item(amount, price) == [Amount |-> amount, Price |-> price]

\* Books as a caller hands them in: CurrencyPair and LastUpdated hold
\* whatever the caller left there.
InputBooks ==
    { [Pair |-> ZeroPair, CurrencyPair |-> <<>>, Bids |-> <<Item(1, 10)>>,
       Asks |-> <<Item(1, 11)>>, LastUpdated |-> 0],
      [Pair |-> MkPair(<<>>, BTC, USD), CurrencyPair |-> <<"x">>,
       Bids |-> <<Item(2, 9), Item(3, 8)>>, Asks |-> <<>>, LastUpdated |-> 7] }

\* The key triple of a call, with the case of its symbols folded away.
HistKey(p, orderbookType) ==
    <<Upper(p.FirstCurrency), Upper(p.SecondCurrency), orderbookType>>

NoCall ==
    [op |-> "none", p |-> ZeroPair, type |-> "", book |-> ZeroBase,
     err |-> NoError, found |-> FALSE, raced |-> FALSE]

----------------------------------------------------------------------------
(* Inputs of the client calls: what the venue and the transport answer.    *)

Symbols == {"BTCUSDT", "ETHBTC"}

\* The depth limits FetchMarketData documents, cut to the first three.
DepthLimits == {-1, 0, 5}

GoodBody == [wellFormed |-> TRUE, code |-> 0, msg |-> "", value |-> "decoded"]
Garbage == [wellFormed |-> FALSE, code |-> 0, msg |-> "", value |-> NoValue]
Envelope(code, msg) ==
    [wellFormed |-> TRUE, code |-> code, msg |-> msg, value |-> "empty"]

InvalidTimestampErrCode == -1021

Bodies ==
    { GoodBody, Garbage,
      Envelope(InvalidTimestampErrCode,
               "Timestamp for this request is outside of the recvWindow."),
      Envelope(0, ErrUnmarshalErrorInfo) }

TransportError == <<"net/http: request canceled while waiting for connection">>

Answer(statusCode, body) == [err |-> NoError, statusCode |-> statusCode, body |-> body]
TransportFailure == [err |-> TransportError, statusCode |-> 0, body |-> Garbage]

StatusCodes == {200, 299, 300, 418}

Responses == {Answer(c, body) : c \in StatusCodes, body \in Bodies} \cup {TransportFailure}

Clients ==
    { [Name |-> "Binance", AuthenticatedAPISupport |-> TRUE, APIKey |-> "key",
       APISecret |-> "secret"],
      [Name |-> "Binance", AuthenticatedAPISupport |-> FALSE, APIKey |-> "",
       APISecret |-> ""] }

NoParams == EmptyMap

NoResponse == [err |-> NoError, statusCode |-> 0, body |-> Garbage]

NoRequestMade ==
    [op |-> "none", args |-> <<>>, method |-> "", path |-> "", params |-> NoParams,
     sign |-> FALSE, resp |-> NoResponse, code |-> 0, err |-> NoError, sent |-> FALSE,
     request |-> NoRequest, result |-> NilArg]

Goroutines == {"g1", "g2"}
NoOwner == "none"

NoRateLimitedCall ==
    [op |-> "none", method |-> "", path |-> "", at |-> 0,
     before |-> ZeroRateLimit, result |-> NilArg,
     defaultValue |-> NilArg, admitted |-> FALSE, sign |-> FALSE, countAtSend |-> 0,
     sent |-> FALSE, code |-> 0, err |-> NoError, panicked |-> FALSE,
     sink |-> NilArg]

NoFrame == [attached |-> TRUE, own |-> ZeroRateLimit, cur |-> 0, loaded |-> 0]

Init ==
    /\ orderbooks = EmptyMap
    /\ latest = EmptyMap
    /\ storeRet = NoCall
    /\ now = 1
    /\ m = NoOwner
    /\ pc = [g \in Goroutines |-> "idle"]
    /\ call = [g \in Goroutines |-> NoCall]
    /\ b \in Clients
    /\ reqRet = NoRequestMade
    /\ rateLimits = EmptyMap
    /\ rlRet = NoRateLimitedCall
    /\ lpc = [g \in Goroutines |-> "idle"]
    /\ frame = [g \in Goroutines |-> NoFrame]


----------------------------------------------------------------------------
(* The store, one call at a time.                                          *)

StoreUpsert ==
    \E p \in InputPairs, book \in InputBooks, orderbookType \in BookTypes :
        /\ orderbooks' = ProcessOrderbook(orderbooks, p, book, orderbookType, now)
        /\ latest' = MapPut(latest, HistKey(p, orderbookType),
                            [Bids |-> book.Bids, Asks |-> book.Asks])
        /\ storeRet' = [NoCall EXCEPT !.op = "ProcessOrderbook", !.p = p,
                                      !.type = orderbookType, !.book = book]
        /\ UNCHANGED <<now, m, pc, call, clientVars>>

StoreGet ==
    \E p \in InputPairs, orderbookType \in BookTypes :
        LET r == GetOrderbook(orderbooks, p, orderbookType)
        IN  /\ storeRet' = [NoCall EXCEPT !.op = "GetOrderbook", !.p = p,
                                          !.type = orderbookType,
                                          !.book = r.book, !.err = r.err]
            /\ UNCHANGED <<orderbooks, latest, now, m, pc, call, clientVars>>

StoreHasBase ==
    \E currency \in InputCurrencies :
        /\ storeRet' = [NoCall EXCEPT !.op = "FirstCurrencyExists",
                                      !.p = MkPair(<<>>, currency, <<>>),
                                      !.found = FirstCurrencyExists(orderbooks, currency)]
        /\ UNCHANGED <<orderbooks, latest, now, m, pc, call, clientVars>>

StoreHasPair ==
    \E p \in InputPairs :
        /\ storeRet' = [NoCall EXCEPT !.op = "SecondCurrencyExists", !.p = p,
                                      !.found = SecondCurrencyExists(orderbooks, p)]
        /\ UNCHANGED <<orderbooks, latest, now, m, pc, call, clientVars>>

StoreNext == StoreUpsert \/ StoreGet \/ StoreHasBase \/ StoreHasPair

SpecStore == Init /\ [][StoreNext]_vars

----------------------------------------------------------------------------
(* C1: after any sequence of upserts, a get of a key triple, with base and *)
(* quote presented in any case variant, returns without error the bids and *)
(* asks of the most recent upsert made to that triple.                     *)
C1_GetReturnsLatestUpsert ==
    (storeRet.op = "GetOrderbook"
        /\ HistKey(storeRet.p, storeRet.type) \in DOMAIN latest)
    => /\ storeRet.err = NoError
       /\ storeRet.book.Bids = latest[HistKey(storeRet.p, storeRet.type)].Bids
       /\ storeRet.book.Asks = latest[HistKey(storeRet.p, storeRet.type)].Asks

\* A get presented in upper case returns the book that was upserted last,
\* and the store holds it under lower-case keys.
C1_Witness ==
    /\ storeRet.op = "GetOrderbook"
    /\ storeRet.p = MkPair(<<>>, BTC, USD)
    /\ HistKey(storeRet.p, storeRet.type) \in DOMAIN latest
    /\ storeRet.book.Bids = <<Item(2, 9), Item(3, 8)>>
    /\ storeRet.book.CurrencyPair = <<"b", "t", "c", "/", "u", "s", "d">>

\* History predicates: what has ever been upserted, up to the case of the symbols.
BaseUpserted(p) == \E k \in DOMAIN latest : k[1] = Upper(p.FirstCurrency)
PairUpserted(p) ==
    \E k \in DOMAIN latest :
        k[1] = Upper(p.FirstCurrency) /\ k[2] = Upper(p.SecondCurrency)

(* C2: a get fails with the primary-currency error when the base was never  *)
(* upserted, fails with the secondary-currency error naming base and quote  *)
(* when the base was upserted but not that quote under it, and returns an   *)
(* empty snapshot without error when the pair exists but the book type was  *)
(* never upserted for it.                                                   *)
C2_GetMissCases ==
    storeRet.op = "GetOrderbook" =>
        /\ ~BaseUpserted(storeRet.p) =>
              /\ storeRet.err = <<ErrPrimaryCurrencyNotFound>>
              /\ storeRet.book = ZeroBase
        /\ (BaseUpserted(storeRet.p) /\ ~PairUpserted(storeRet.p)) =>
              /\ Len(storeRet.err) = 3
              /\ storeRet.err[1] = ErrSecondaryCurrencyNotFound
              /\ Upper(storeRet.err[2]) = Upper(storeRet.p.FirstCurrency)
              /\ Upper(storeRet.err[3]) = Upper(storeRet.p.SecondCurrency)
              /\ storeRet.book = ZeroBase
        /\ (PairUpserted(storeRet.p)
                /\ HistKey(storeRet.p, storeRet.type) \notin DOMAIN latest) =>
              /\ storeRet.err = NoError
              /\ storeRet.book = ZeroBase

\* The pair was upserted as SPOT only, and a get of its MARGIN book came
\* back empty and without error.
C2_Witness ==
    /\ storeRet.op = "GetOrderbook"
    /\ storeRet.type = Margin
    /\ HistKey(storeRet.p, Spot) \in DOMAIN latest
    /\ HistKey(storeRet.p, Margin) \notin DOMAIN latest
    /\ storeRet.err = NoError
    /\ storeRet.book = ZeroBase

\* What a get of the triple k of the history finds in books.
Snapshot(books, k) == GetOrderbook(books, MkPair(<<>>, k[1], k[2]), k[3])

\* Every triple ever upserted is retrievable, with the bids and asks last
\* upserted to it.
StillRetrievable ==
    \A k \in DOMAIN latest :
        /\ Snapshot(orderbooks, k).err = NoError
        /\ Snapshot(orderbooks, k).book.Bids = latest[k].Bids
        /\ Snapshot(orderbooks, k).book.Asks = latest[k].Asks

\* The entries of the nested mapping: base key, quote key, book type.
Entries(books) ==
    UNION { UNION { {<<c1, c2, t>> : t \in DOMAIN books[c1][c2]} : c2 \in DOMAIN books[c1] } :
            c1 \in DOMAIN books }

\* The entry an upsert of the pair p and the book type is made to.
Upserted(p, orderbookType) ==
    LET fp == formatCurrencyPair(p)
    IN  <<fp.FirstCurrency, fp.SecondCurrency, orderbookType>>

\* A step leaves every entry in place and unchanged, but for the entry an
\* upsert is made to.
NarrowFrame ==
    \/ orderbooks' = orderbooks
    \/ /\ storeRet'.op = "ProcessOrderbook"
       /\ \A e \in Entries(orderbooks) \ {Upserted(storeRet'.p, storeRet'.type)} :
              /\ e[1] \in DOMAIN orderbooks'
              /\ e[2] \in DOMAIN orderbooks'[e[1]]
              /\ e[3] \in DOMAIN orderbooks'[e[1]][e[2]]
              /\ orderbooks'[e[1]][e[2]][e[3]] = orderbooks[e[1]][e[2]][e[3]]

(* C14: entries are never deleted and an upsert has a narrow frame: in      *)
(* every state each triple ever upserted is retrievable with the bids and   *)
(* asks last upserted to it, and every step leaves the snapshot of every    *)
(* triple other than the one it upserts unchanged, other quotes under the   *)
(* same base and other book types under the same pair included.             *)
C14_NeverDeletedNarrowFrame == []StillRetrievable /\ [][NarrowFrame]_vars

\* BTC holds two quotes and BTC/USD two book types, with different books,
\* after an upsert to BTC/ETH.
C14_Witness ==
    /\ storeRet.op = "ProcessOrderbook"
    /\ HistKey(storeRet.p, storeRet.type) = <<BTC, ETH, Spot>>
    /\ {<<BTC, USD, Spot>>, <<BTC, USD, Margin>>, <<ETH, USD, Spot>>} \subseteq DOMAIN latest
    /\ latest[<<BTC, USD, Spot>>] # latest[<<BTC, USD, Margin>>]
    /\ Snapshot(orderbooks, <<BTC, USD, Spot>>).book.Bids = latest[<<BTC, USD, Spot>>].Bids
    /\ Snapshot(orderbooks, <<BTC, USD, Margin>>).book.Bids = latest[<<BTC, USD, Margin>>].Bids

\* No two keys of a mapping level are case variants of each other.
NoCaseVariants(keys) == \A c1, c2 \in keys : Upper(c1) = Upper(c2) => c1 = c2

(* C15: in every reachable store state the base and quote keys are in the   *)
(* one canonical form: no two keys of a level are case or delimiter         *)
(* variants of each other, every snapshot carries its pair in the one       *)
(* delimiter style, and the key the base-existence probe looks up (the      *)
(* case-folded symbol) is the key under which upsert stored that base       *)
(* (pair-level formatting).                                                 *)
C15_CanonicalKeys ==
    /\ NoCaseVariants(DOMAIN orderbooks)
    /\ \A c1 \in DOMAIN orderbooks : NoCaseVariants(DOMAIN orderbooks[c1])
    /\ \A e \in Entries(orderbooks) :
          /\ formatCurrency(e[1]) = e[1]
          /\ orderbooks[e[1]][e[2]][e[3]].CurrencyPair = e[1] \o <<"/">> \o e[2]
          /\ <<Upper(e[1]), Upper(e[2]), e[3]>> \in DOMAIN latest
    /\ \A k \in DOMAIN latest :
          /\ FirstCurrencyExists(orderbooks, k[1])
          /\ <<formatCurrency(k[1]), formatCurrencyPair(MkPair(<<>>, k[1], k[2])).SecondCurrency,
               k[3]>> \in Entries(orderbooks)
    /\ storeRet.op = "ProcessOrderbook" =>
          /\ formatCurrency(storeRet.p.FirstCurrency) \in DOMAIN orderbooks
          /\ formatCurrency(storeRet.p.FirstCurrency)
                = Upserted(storeRet.p, storeRet.type)[1]
          /\ Upserted(storeRet.p, storeRet.type) \in Entries(orderbooks)

\* BTC/USD was upserted in mixed case with a dash after an upsert of its
\* other book type, and the store holds one base key with both quotes.
C15_Witness ==
    /\ storeRet.op = "ProcessOrderbook"
    /\ storeRet.p = MkPair(<<"-">>, <<"B", "t", "c">>, <<"u", "S", "d">>)
    /\ storeRet.type = Spot
    /\ DOMAIN orderbooks = {Lower(BTC)}
    /\ DOMAIN orderbooks[Lower(BTC)] = {Lower(USD), Lower(ETH)}
    /\ DOMAIN orderbooks[Lower(BTC)][Lower(USD)] = {Spot, Margin}

----------------------------------------------------------------------------
(* The store under concurrent goroutines.  GetOrderbook and ProcessOrderbook *)
(* take o.m first and release it on return (defer); FirstCurrencyExists and  *)
(* SecondCurrencyExists take no lock, so a goroutine that calls them         *)
(* directly reads the map with no lock held.  A Go map write is not atomic   *)
(* for a concurrent reader: it spans "writing", and a read that overlaps it  *)
(* is a data race whose result is arbitrary.                                 *)

ConcPairs == {MkPair(<<>>, BTC, USD), MkPair(<<"/">>, Lower(BTC), Lower(ETH))}
ConcBook == CHOOSE book \in InputBooks : book.LastUpdated = 0

Writing == {g \in Goroutines : pc[g] = "writing"}
Reading == {g \in Goroutines : pc[g] = "reading"}

CallGetOrderbook(g) ==
    /\ pc[g] = "idle"
    /\ \E p \in ConcPairs :
          call' = [call EXCEPT ![g] = [NoCall EXCEPT !.op = "GetOrderbook", !.p = p,
                                                     !.type = Spot]]
    /\ pc' = [pc EXCEPT ![g] = "Lock"]
    /\ UNCHANGED <<orderbooks, latest, storeRet, now, m, clientVars>>

CallProcessOrderbook(g) ==
    /\ pc[g] = "idle"
    /\ \E p \in ConcPairs :
          call' = [call EXCEPT ![g] = [NoCall EXCEPT !.op = "ProcessOrderbook", !.p = p,
                                                     !.type = Spot, !.book = ConcBook]]
    /\ pc' = [pc EXCEPT ![g] = "Lock"]
    /\ UNCHANGED <<orderbooks, latest, storeRet, now, m, clientVars>>

\* o.m.Lock()
Lock(g) ==
    /\ pc[g] = "Lock"
    /\ m = NoOwner
    /\ m' = g
    /\ pc' = [pc EXCEPT ![g] = "locked"]
    /\ UNCHANGED <<orderbooks, latest, storeRet, now, call, clientVars>>

\* GetOrderbookBody with the error returns placed before the unlock: a get
\* that fails returns with the lock still held.
GetOrderbookBodyErrorKeepsLock(g) ==
    /\ pc[g] = "locked"
    /\ call[g].op = "GetOrderbook"
    /\ LET r == GetOrderbook(orderbooks, call[g].p, call[g].type)
       IN  /\ call' = [call EXCEPT ![g].book = r.book, ![g].err = r.err]
           /\ pc' = [pc EXCEPT ![g] = IF r.err = NoError THEN "Unlock" ELSE "idle"]
    /\ UNCHANGED <<orderbooks, latest, storeRet, now, m, clientVars>>

GetOrderbookBody(g) ==
    /\ pc[g] = "locked"
    /\ call[g].op = "GetOrderbook"
    /\ LET r == GetOrderbook(orderbooks, call[g].p, call[g].type)
       IN  call' = [call EXCEPT ![g].book = r.book, ![g].err = r.err]
    /\ pc' = [pc EXCEPT ![g] = "Unlock"]
    /\ UNCHANGED <<orderbooks, latest, storeRet, now, m, clientVars>>

\* The map store of ProcessOrderbook begins: every read in progress now races it.
ProcessOrderbookBegin(g) ==
    /\ pc[g] = "locked"
    /\ call[g].op = "ProcessOrderbook"
    /\ pc' = [pc EXCEPT ![g] = "writing"]
    /\ call' = [h \in Goroutines |->
                   IF h \in Reading THEN [call[h] EXCEPT !.raced = TRUE] ELSE call[h]]
    /\ UNCHANGED <<orderbooks, latest, storeRet, now, m, clientVars>>

ProcessOrderbookEnd(g) ==
    /\ pc[g] = "writing"
    /\ orderbooks' = ProcessOrderbook(orderbooks, call[g].p, call[g].book,
                                      call[g].type, now)
    /\ latest' = MapPut(latest, HistKey(call[g].p, call[g].type),
                        [Bids |-> call[g].book.Bids, Asks |-> call[g].book.Asks])
    /\ pc' = [pc EXCEPT ![g] = "Unlock"]
    /\ UNCHANGED <<storeRet, now, m, call, clientVars>>

\* defer o.m.Unlock(), and the return
Unlock(g) ==
    /\ pc[g] = "Unlock"
    /\ m' = NoOwner
    /\ pc' = [pc EXCEPT ![g] = "idle"]
    /\ UNCHANGED <<orderbooks, latest, storeRet, now, call, clientVars>>

\* A direct call of FirstCurrencyExists: the map read begins, with no lock.
CallFirstCurrencyExists(g) ==
    /\ pc[g] = "idle"
    /\ \E p \in ConcPairs :
          call' = [call EXCEPT ![g] =
                      [NoCall EXCEPT !.op = "FirstCurrencyExists",
                                     !.p = MkPair(<<>>, p.FirstCurrency, <<>>),
                                     !.raced = (Writing # {})]]
    /\ pc' = [pc EXCEPT ![g] = "reading"]
    /\ UNCHANGED <<orderbooks, latest, storeRet, now, m, clientVars>>

\* A direct call of SecondCurrencyExists: the map read begins, with no lock.
CallSecondCurrencyExists(g) ==
    /\ pc[g] = "idle"
    /\ \E p \in ConcPairs :
          call' = [call EXCEPT ![g] =
                      [NoCall EXCEPT !.op = "SecondCurrencyExists", !.p = p,
                                     !.raced = (Writing # {})]]
    /\ pc' = [pc EXCEPT ![g] = "reading"]
    /\ UNCHANGED <<orderbooks, latest, storeRet, now, m, clientVars>>

\* The probe returns: what the map holds, or anything if the read raced a write.
ProbeReturn(g) ==
    /\ pc[g] = "reading"
    /\ \E found \in BOOLEAN :
          /\ \/ call[g].raced
             \/ /\ call[g].op = "FirstCurrencyExists"
                /\ found = FirstCurrencyExists(orderbooks, call[g].p.FirstCurrency)
             \/ /\ call[g].op = "SecondCurrencyExists"
                /\ found = SecondCurrencyExists(orderbooks, call[g].p)
          /\ call' = [call EXCEPT ![g].found = found]
    /\ pc' = [pc EXCEPT ![g] = "idle"]
    /\ UNCHANGED <<orderbooks, latest, storeRet, now, m, clientVars>>

StoreConcNext ==
    \E g \in Goroutines :
        \/ CallGetOrderbook(g)
        \/ CallProcessOrderbook(g)
        \/ Lock(g)
        \/ GetOrderbookBody(g)
        \/ ProcessOrderbookBegin(g)
        \/ ProcessOrderbookEnd(g)
        \/ Unlock(g)
        \/ CallFirstCurrencyExists(g)
        \/ CallSecondCurrencyExists(g)
        \/ ProbeReturn(g)

SpecStoreConc == Init /\ [][StoreConcNext]_vars

(* C10: every store operation, the existence probes FirstCurrencyExists and  *)
(* SecondCurrencyExists called directly included, holds the store lock for   *)
(* the whole call, so that no probe or get reads the nested mapping while an *)
(* upsert is in the middle of mutating it.  Stated by what the lock is for:   *)
(* no read of the mapping overlaps a write of it.                            *)
C10_NoReadDuringMutation ==
    \A g \in Goroutines :
        (pc[g] = "reading" \/ (pc[g] = "locked" /\ call[g].op = "GetOrderbook"))
        => Writing = {}

\* The goroutines inside the critical section of ProcessOrderbook.
Upserting ==
    {g \in Goroutines :
        call[g].op = "ProcessOrderbook" /\ pc[g] \in {"locked", "writing", "Unlock"}}

(* C16: the nested mapping is never observable partially constructed: in    *)
(* every state outside the critical section of an upsert, each base key     *)
(* present maps to at least one quote key and each quote key present maps   *)
(* to at least one book type.                                               *)
C16_NoPartialNesting ==
    Upserting = {} =>
        \A c1 \in DOMAIN orderbooks :
            /\ DOMAIN orderbooks[c1] # {}
            /\ \A c2 \in DOMAIN orderbooks[c1] : DOMAIN orderbooks[c1][c2] # {}

\* Both pairs are stored, nobody is inside an upsert, and a probe is reading.
C16_Witness ==
    /\ Upserting = {}
    /\ Reading # {}
    /\ Entries(orderbooks) = {<<Lower(BTC), Lower(USD), Spot>>, <<Lower(BTC), Lower(ETH), Spot>>}

\* The scheduler runs every goroutine that can take a step, and sync.Mutex
\* hands the lock to a goroutine that keeps waiting for it (its starvation
\* mode), so that no waiter is passed over for ever.
StoreConcFairness ==
    \A g \in Goroutines :
        /\ SF_vars(Lock(g))
        /\ WF_vars(GetOrderbookBody(g))
        /\ WF_vars(ProcessOrderbookBegin(g))
        /\ WF_vars(ProcessOrderbookEnd(g))
        /\ WF_vars(Unlock(g))

SpecStoreConcFair == SpecStoreConc /\ StoreConcFairness

\* The lock is held by the goroutine inside a get or an upsert, and by
\* nobody else.
HeldByTheCaller ==
    \A g \in Goroutines :
        (m = g) <=> (pc[g] \in {"locked", "writing", "Unlock"})

(* C17: the store lock never deadlocks and is always released: a get, on    *)
(* its error returns as on its success return, and an upsert hold the lock  *)
(* from acquiring it to their return and not after it, they get through     *)
(* their calls of the existence probes while holding it, and under fair     *)
(* scheduling every caller waiting for the lock acquires it.                *)
C17_LockReleasedAndAcquired ==
    /\ []HeldByTheCaller
    /\ \A g \in Goroutines : (m = g) ~> (pc[g] = "idle" /\ m # g)
    /\ \A g \in Goroutines : (pc[g] = "Lock") ~> (m = g)

\* A get is about to return an error with the lock held while the other
\* goroutine waits for the lock.
C17_Witness ==
    /\ m = "g1"
    /\ pc["g1"] = "Unlock"
    /\ call["g1"].op = "GetOrderbook"
    /\ call["g1"].err # NoError
    /\ pc["g2"] = "Lock"

----------------------------------------------------------------------------
(* The client's requests, one call at a time.                              *)

\* What a call through SendHTTPRequest leaves behind.
Requested(op, method, path, params, sign, resp) ==
    LET r == SendHTTPRequest(b, method, path, params, sign, PtrArg("zero"), resp, now)
    IN  [op |-> op, args |-> <<>>, method |-> method, path |-> path, params |-> params,
         sign |-> sign, resp |-> resp, code |-> r.code, err |-> r.err,
         sent |-> r.sent, request |-> r.request, result |-> r.result]

\* FetchMarketDataParams sending the limit only when it is positive.
FetchMarketDataParamsPositiveOnly(symbol, limit) ==
    IF limit > 0
    THEN MapPut(MapPut(NoParams, "symbol", symbol), "limit", ToString(limit))
    ELSE MapPut(NoParams, "symbol", symbol)

FetchMarketDataParams(symbol, limit) ==
    IF limit > -1
    THEN MapPut(MapPut(NoParams, "symbol", symbol), "limit", ToString(limit))
    ELSE MapPut(NoParams, "symbol", symbol)

FetchMarketData ==
    \E symbol \in Symbols, limit \in DepthLimits, resp \in Responses :
        /\ reqRet' = [Requested("FetchMarketData", MethodGet, binanceDepthPath,
                                FetchMarketDataParams(symbol, limit), FALSE, resp)
                          EXCEPT !.args = <<symbol, limit>>]
        /\ UNCHANGED <<storeSide, now, b, rateLimits, rlRet, lpc, frame>>

FetchAccountInfo ==
    \E resp \in Responses :
        /\ reqRet' = Requested("FetchAccountInfo", MethodGet, binanceAccountPath,
                               NoParams, TRUE, resp)
        /\ UNCHANGED <<storeSide, now, b, rateLimits, rlRet, lpc, frame>>

OrderIDs == {0, 7}
ClientOrderIDs == {"", "mine"}

\* The parameters FetchOrder and DeleteOrder build.
OrderParams(symbol, orderID, clientOrderID) ==
    LET v1 == MapPut(NoParams, "symbol", symbol)
        v2 == IF orderID # 0 THEN MapPut(v1, "orderId", ToString(orderID)) ELSE v1
    IN  IF clientOrderID # "" THEN MapPut(v2, "origClientOrderId", clientOrderID) ELSE v2

FetchOrder ==
    \E symbol \in Symbols, orderID \in OrderIDs, clientOrderID \in ClientOrderIDs,
       resp \in Responses :
        /\ reqRet' = Requested("FetchOrder", MethodGet, binanceOrderPath,
                               OrderParams(symbol, orderID, clientOrderID), TRUE, resp)
        /\ UNCHANGED <<storeSide, now, b, rateLimits, rlRet, lpc, frame>>

DeleteOrder ==
    \E symbol \in Symbols, orderID \in OrderIDs, clientOrderID \in ClientOrderIDs,
       resp \in Responses :
        /\ reqRet' = Requested("DeleteOrder", MethodDelete, binanceOrderPath,
                               OrderParams(symbol, orderID, clientOrderID), TRUE, resp)
        /\ UNCHANGED <<storeSide, now, b, rateLimits, rlRet, lpc, frame>>

RequestNext == FetchMarketData \/ FetchAccountInfo \/ FetchOrder \/ DeleteOrder

SpecRequest == Init /\ [][RequestNext]_vars

IsNoCredentials(err) ==
    Len(err) = 2 /\ err[1] = WarningAuthenticatedRequestWithoutCredentialsSet

(* C8: sendRequest fails with the no-credentials error, without a network   *)
(* call, when requiresAuth is true and no credentials are configured; a     *)
(* call with requiresAuth false, such as fetchMarketData, is not rejected   *)
(* for missing credentials and is dispatched to the network.                *)
C8_CredentialsOnlyWhenSigned ==
    reqRet.op # "none" =>
        /\ (reqRet.sign /\ ~b.AuthenticatedAPISupport)
              => (IsNoCredentials(reqRet.err) /\ ~reqRet.sent)
        /\ ~reqRet.sign => (~IsNoCredentials(reqRet.err) /\ reqRet.sent)

\* The kind of outcome an answer of the transport leads to.
OutcomeKind(resp) ==
    IF resp.err # NoError THEN "transport"
    ELSE IF 200 <= resp.statusCode /\ resp.statusCode <= 299
    THEN IF resp.body.wellFormed THEN "success" ELSE "malformed response"
    ELSE IF resp.body.wellFormed THEN "venue error" ELSE "malformed error response"

\* What the caller of SendHTTPRequest gets to see of an outcome.
Returned(resp) ==
    LET r == HandleResponse(resp, PtrArg("zero")) IN <<r.code, r.err>>

\* The four clauses on what each outcome returns.
C9_EachOutcomeReturns ==
    reqRet.sent =>
        /\ OutcomeKind(reqRet.resp) = "venue error"
              => /\ reqRet.code = reqRet.resp.body.code
                 /\ reqRet.err = <<reqRet.resp.body.msg>>
        /\ OutcomeKind(reqRet.resp) = "malformed error response"
              => reqRet.err = <<ErrUnmarshalErrorInfo>>
        /\ OutcomeKind(reqRet.resp) = "malformed response"
              => reqRet.err = <<ErrUnmarshalResponse>>
        /\ OutcomeKind(reqRet.resp) = "transport"
              => reqRet.err = reqRet.resp.err

FailureKinds ==
    {"venue error", "malformed error response", "malformed response", "transport"}

DecodeErrorTexts == {<<ErrUnmarshalErrorInfo>>, <<ErrUnmarshalResponse>>}
SuppliesDecodeText(resp) ==
    \/ OutcomeKind(resp) = "venue error" /\ <<resp.body.msg>> \in DecodeErrorTexts
    \/ OutcomeKind(resp) = "transport" /\ resp.err \in DecodeErrorTexts
SameSuppliedText(r1, r2) ==
    \/ OutcomeKind(r1) = "venue error" /\ OutcomeKind(r2) = "transport"
          /\ <<r1.body.msg>> = r2.err
    \/ OutcomeKind(r2) = "venue error" /\ OutcomeKind(r1) = "transport"
          /\ <<r2.body.msg>> = r1.err

PayloadSent ==
    IF reqRet.method = MethodGet THEN reqRet.request.url[4] ELSE reqRet.request.body

\* The caller's parameters as url.Values encodes them.
CallerEncoded ==
    IF Cardinality(DOMAIN reqRet.params) > 0 THEN Encode(reqRet.params) ELSE <<>>

(* C11: the payload of an authenticated request is the caller's encoded     *)
(* parameters, then timestamp in milliseconds, then recvWindow=5000, then    *)
(* signature as the last parameter, computed with the configured secret     *)
(* over exactly the payload before it; the API key is in the X-MBX-APIKEY   *)
(* header and nowhere in the payload; the payload is in the URL query of a  *)
(* GET and in the form-encoded body, with the form content type, of every   *)
(* other method.                                                            *)
C11_SignedPayloadLayout ==
    (reqRet.sent /\ reqRet.sign) =>
        LET payload == PayloadSent
            n == Len(CallerEncoded)
            req == reqRet.request
        IN  /\ Len(payload) = n + 3
            /\ SubSeq(payload, 1, n) = CallerEncoded
            /\ payload[n + 1] = <<"timestamp", ToString(now * 1000)>>
            /\ payload[n + 2] = <<"recvWindow", "5000">>
            /\ payload[n + 3][1] = "signature"
            /\ payload[n + 3][2] = HexHMACSHA256(SubSeq(payload, 1, n + 2), b.APISecret)
            /\ "X-MBX-APIKEY" \in DOMAIN req.headers
            /\ req.headers["X-MBX-APIKEY"] = b.APIKey
            /\ \A i \in 1..(n + 2) : payload[i][1] # b.APIKey /\ payload[i][2] # b.APIKey
            /\ payload[n + 3][2].key # b.APIKey
            /\ IF reqRet.method = MethodGet
               THEN /\ req.url = <<binanceBaseURL, reqRet.path, "?", payload>>
                    /\ req.body = <<>>
               ELSE /\ req.url = <<binanceBaseURL, reqRet.path>>
                    /\ req.body = payload
                    /\ "Content-Type" \in DOMAIN req.headers
                    /\ req.headers["Content-Type"] = "application/x-www-form-urlencoded"

\* A signed DELETE with three caller parameters went out.
C11_Witness ==
    /\ reqRet.sent
    /\ reqRet.sign
    /\ reqRet.op = "DeleteOrder"
    /\ Len(reqRet.request.body) = 6
    /\ reqRet.request.body[6][1] = "signature"

\* The positions of the limit parameter in the query of the request sent.
LimitsSent ==
    {i \in DOMAIN PayloadSent : PayloadSent[i][1] = "limit"}

(* C12: fetchMarketData leaves the limit parameter out of the request when  *)
(* depthLimit is -1 and sends limit=0 when depthLimit is 0, so that the two *)
(* requests differ; for every depthLimit of 0 or more the request carries   *)
(* limit equal to that value.                                               *)
C12_LimitOmittedOrExplicit ==
    (reqRet.op = "FetchMarketData" /\ reqRet.sent) =>
        LET symbol == reqRet.args[1]
            limit == reqRet.args[2]
            unspecified == BuildRequest(b, MethodGet, binanceDepthPath,
                                        FetchMarketDataParams(symbol, -1), FALSE, now)
        IN  /\ \E i \in DOMAIN PayloadSent : PayloadSent[i] = <<"symbol", symbol>>
            /\ limit = -1 => LimitsSent = {}
            /\ limit >= 0 =>
                  /\ Cardinality(LimitsSent) = 1
                  /\ \A i \in LimitsSent : PayloadSent[i][2] = ToString(limit)
                  /\ reqRet.request # unspecified
            /\ limit = 0 => \E i \in LimitsSent : PayloadSent[i] = <<"limit", "0">>

\* A depth request with limit 0 went out.
C12_Witness ==
    /\ reqRet.op = "FetchMarketData"
    /\ reqRet.sent
    /\ reqRet.args[2] = 0
    /\ reqRet.request.url[4] = <<<<"limit", "0">>, <<"symbol", reqRet.args[1]>>>>

(* C19: the code SendHTTPRequest returns is non-zero only when it is the    *)
(* venue's own error code, taken from a well-formed error envelope on a     *)
(* non-2xx response; on success, on the credential failure, on a transport  *)
(* error and on either decode failure the code returned is 0.               *)
C19_CodeOnlyFromEnvelope ==
    reqRet.op # "none" =>
        /\ reqRet.code # 0 =>
              /\ reqRet.sent
              /\ OutcomeKind(reqRet.resp) = "venue error"
              /\ reqRet.code = reqRet.resp.body.code
        /\ ~reqRet.sent => reqRet.code = 0
        /\ (reqRet.sent /\ OutcomeKind(reqRet.resp) \in
                {"success", "transport", "malformed response", "malformed error response"})
              => reqRet.code = 0

----------------------------------------------------------------------------
(* The rate limiter, one call at a time.                                   *)

binanceOpenOrdersPath == "api/v3/openOrders"

\* The endpoints polled through SendRateLimitedHTTPRequest.
Endpoints ==
    { <<MethodGet, binanceOpenOrdersPath>>, <<MethodGet, binanceAccountPath>>,
      <<MethodDelete, binanceOpenOrdersPath>> }

\* requestsPerMin, the budget every caller of an endpoint passes
RequestsPerMin == 2

ResultArgs == {NilArg, NilPtrArg, PtrArg("old")}
DefaultArgs == {NilArg, NilPtrArg, ValueArg("default"), PtrArg("default")}

LimiterResponses ==
    { TransportFailure, Answer(200, GoodBody), Answer(200, Garbage),
      Answer(500, Garbage),
      Answer(418, Envelope(InvalidTimestampErrCode,
                           "Timestamp for this request is outside of the recvWindow.")) }

\* The clock moves forward between calls: by the window's length, or past it.
TickSteps == {WindowSeconds, WindowSeconds + 1}
MaxTime == 92

Tick ==
    /\ \E d \in TickSteps :
          /\ now + d <= MaxTime
          /\ now' = now + d
    /\ UNCHANGED <<storeSide, clientVars>>

\* What a call of SendRateLimitedHTTPRequest leaves behind.
RateLimited(endpoint, result, defaultValue, r) ==
    [op |-> "SendRateLimitedHTTPRequest", method |-> endpoint[1],
     path |-> endpoint[2], at |-> now,
     before |-> RateLimitOf(rateLimits, RateLimitKey(endpoint[1], endpoint[2])),
     result |-> result,
     defaultValue |-> defaultValue, admitted |-> r.admitted, sign |-> r.sign,
     countAtSend |-> r.countAtSend, sent |-> r.sent, code |-> r.code,
     err |-> r.err, panicked |-> r.panicked, sink |-> r.result]

\* The transport answers only a request that went out, and the default value
\* matters only to a call that is throttled: a call is drawn with the inputs
\* it reads.
WillAdmit(endpoint) ==
    WithinBudget(Refreshed(RateLimitOf(rateLimits, RateLimitKey(endpoint[1], endpoint[2])),
                           now),
                 RequestsPerMin)

RateLimitedCall ==
    \E endpoint \in Endpoints, result \in ResultArgs :
        \E defaultValue \in IF WillAdmit(endpoint) THEN {ValueArg("default")}
                            ELSE DefaultArgs :
            \E resp \in IF WillAdmit(endpoint) THEN LimiterResponses ELSE {NoResponse} :
                \E r \in {SendRateLimitedHTTPRequest(rateLimits, b, RequestsPerMin,
                                                     endpoint[1], endpoint[2], NoParams,
                                                     result, defaultValue, resp, now)} :
                    /\ rateLimits' = r.limits
                    /\ rlRet' = RateLimited(endpoint, result, defaultValue, r)
                    /\ UNCHANGED <<storeSide, now, b, reqRet, lpc, frame>>

LimiterNext == Tick \/ RateLimitedCall

SpecLimiter == Init /\ [][LimiterNext]_vars

\* A step that is a rate-limited call, and the endpoint key it was made on.
CallStep == rlRet' # rlRet
CalledKey == RateLimitKey(rlRet'.method, rlRet'.path)

\* The window a call at time t falls in is the one it finds, unless there is
\* none or more than the threshold has passed since it started.
InWindow(w, t) == w.StartTime # 0 /\ t - w.StartTime <= WindowSeconds

\* The calls admitted so far in the window a call falls in.
UsedBefore(w, t) == IF InWindow(w, t) THEN w.RequestCount ELSE 0

\* The call's arguments are usable for the copy of the default value.
UsableArgs(call_) ==
    call_.result.kind = "ptr" /\ call_.defaultValue.kind \in {"value", "ptr"}

(* C3 as claimed: of the sequential calls on one endpoint key inside one    *)
(* window, the first RequestsPerMin each increment the count and go on to   *)
(* SendHTTPRequest with sign = true; every further call in the window makes *)
(* no network call, copies defaultValue into result and returns no error.   *)
C3_BudgetThenDefault ==
    [][CallStep =>
         LET used == UsedBefore(RateLimitOf(rateLimits, CalledKey), now)
             after == rateLimits'[CalledKey]
         IN  /\ used < RequestsPerMin =>
                  /\ rlRet'.admitted /\ rlRet'.sign
                  /\ after.RequestCount = used + 1
             /\ used >= RequestsPerMin =>
                  /\ ~rlRet'.admitted /\ ~rlRet'.sent
                  /\ after.RequestCount = used
                  /\ rlRet'.sink.elem = rlRet'.defaultValue.elem
                  /\ rlRet'.err = NoError /\ ~rlRet'.panicked
      ]_vars

(* C3, amended: as claimed for the first RequestsPerMin calls; every        *)
(* further call in the window makes no network call and leaves the count    *)
(* as it is, and copies defaultValue into result and returns no error when  *)
(* result is a non-nil pointer and defaultValue is a value or a non-nil     *)
(* pointer to one.                                                          *)
C3_BudgetThenDefaultForUsableArgs ==
    [][CallStep =>
         LET used == UsedBefore(RateLimitOf(rateLimits, CalledKey), now)
             after == rateLimits'[CalledKey]
         IN  /\ used < RequestsPerMin =>
                  /\ rlRet'.admitted /\ rlRet'.sign
                  /\ after.RequestCount = used + 1
             /\ used >= RequestsPerMin =>
                  /\ ~rlRet'.admitted /\ ~rlRet'.sent
                  /\ after.RequestCount = used
                  /\ UsableArgs(rlRet') =>
                        /\ rlRet'.sink.elem = rlRet'.defaultValue.elem
                        /\ rlRet'.err = NoError /\ ~rlRet'.panicked
      ]_vars

\* A call found the budget used up inside the window and came back with the
\* default value in its result.
C3_Witness ==
    /\ rlRet.op = "SendRateLimitedHTTPRequest"
    /\ InWindow(rlRet.before, rlRet.at)
    /\ rlRet.before.RequestCount = RequestsPerMin
    /\ ~rlRet.admitted /\ ~rlRet.sent
    /\ rlRet.result = PtrArg("old")
    /\ rlRet.sink = PtrArg("default")
    /\ rlRet.err = NoError

(* C5: an exhausted window becomes a fresh one (count reset to 0, start set *)
(* to now) only in a call made when more than 90 seconds have passed since  *)
(* its start; a call on an exhausted window within the threshold changes    *)
(* neither count nor start; and the first call after the threshold goes to  *)
(* the network path again, taking the first slot of the fresh window.       *)
C5_ExhaustedUntilThreshold ==
    [][\A key \in DOMAIN rateLimits :
          LET w == rateLimits[key]
              after == rateLimits'[key]
              called == CallStep /\ CalledKey = key
          IN  w.RequestCount >= RequestsPerMin =>
                /\ after # w =>
                      /\ called
                      /\ now - w.StartTime > WindowSeconds
                      /\ after.StartTime = now
                /\ (called /\ now - w.StartTime <= WindowSeconds) =>
                      /\ after = w
                      /\ ~rlRet'.admitted
                /\ (called /\ now - w.StartTime > WindowSeconds) =>
                      /\ rlRet'.admitted
                      /\ rlRet'.countAtSend = 1
                      /\ after = [StartTime |-> now, RequestCount |-> 1]
      ]_vars

\* A call found an exhausted window more than 90 seconds old and was admitted
\* into a fresh one.
C5_Witness ==
    /\ rlRet.op = "SendRateLimitedHTTPRequest"
    /\ rlRet.before.RequestCount = RequestsPerMin
    /\ rlRet.at - rlRet.before.StartTime > WindowSeconds
    /\ rlRet.admitted
    /\ rateLimits[RateLimitKey(rlRet.method, rlRet.path)]
          = [StartTime |-> rlRet.at, RequestCount |-> 1]

(* C6 as claimed: a call whose budget is exhausted never returns an error,  *)
(* whatever result and defaultValue the caller passed.                      *)
C6_ThrottledNeverErrors ==
    (rlRet.op = "SendRateLimitedHTTPRequest" /\ ~rlRet.admitted)
    => rlRet.err = NoError

(* C6, amended: a call whose budget is exhausted returns success when       *)
(* result is a non-nil pointer and defaultValue is a value or a non-nil     *)
(* pointer to one; with any other result it returns the error "result must  *)
(* be a non-nil pointer", and with a nil defaultValue the error "default    *)
(* value must be not be nil".                                               *)
C6_ThrottledErrorsOnlyOnUnusableArgs ==
    (rlRet.op = "SendRateLimitedHTTPRequest" /\ ~rlRet.admitted) =>
        /\ UsableArgs(rlRet) =>
              /\ rlRet.err = NoError /\ ~rlRet.panicked
              /\ rlRet.sink.elem = rlRet.defaultValue.elem
        /\ rlRet.result.kind # "ptr" => rlRet.err = <<ErrResultNotPointer>>
        /\ (rlRet.result.kind = "ptr" /\ rlRet.defaultValue.kind = "nil")
              => rlRet.err = <<ErrDefaultNil>>

\* A throttled call with a pointer result and a pointer default succeeded.
C6_Witness ==
    /\ rlRet.op = "SendRateLimitedHTTPRequest"
    /\ ~rlRet.admitted
    /\ rlRet.result.kind = "ptr"
    /\ rlRet.defaultValue = PtrArg("default")
    /\ rlRet.err = NoError
    /\ rlRet.sink.elem = "default"

(* C7: the slot is consumed at admission: for every admitted call the count *)
(* is incremented before SendHTTPRequest is invoked, and the increment      *)
(* stays whatever SendHTTPRequest returns (success, credential failure,     *)
(* transport error, decode error or venue error).                           *)
C7_SlotConsumedAtAdmission ==
    (rlRet.op = "SendRateLimitedHTTPRequest" /\ rlRet.admitted) =>
        /\ rlRet.countAtSend = UsedBefore(rlRet.before, rlRet.at) + 1
        /\ rateLimits[RateLimitKey(rlRet.method, rlRet.path)].RequestCount
              = rlRet.countAtSend

\* An admitted call failed in the transport and its slot stayed consumed.
C7_Witness ==
    /\ rlRet.op = "SendRateLimitedHTTPRequest"
    /\ rlRet.admitted /\ rlRet.sent
    /\ rlRet.err = TransportError
    /\ rateLimits[RateLimitKey(rlRet.method, rlRet.path)].RequestCount
          = rlRet.before.RequestCount + 1

(* C18: the windows of different endpoint keys are independent: a call for  *)
(* one method+path key, admitted, throttled or resetting, leaves the count  *)
(* and the start of every other key's window unchanged and creates no other *)
(* key, and a call whose own window has budget left is admitted whatever    *)
(* the other windows hold, so that exhausting one endpoint never throttles  *)
(* another.                                                                 *)
C18_WindowsIndependent ==
    [][ CallStep =>
          /\ \A e \in Endpoints \ {<<rlRet'.method, rlRet'.path>>} :
                LET key == RateLimitKey(e[1], e[2])
                IN  /\ (key \in DOMAIN rateLimits') <=> (key \in DOMAIN rateLimits)
                    /\ RateLimitOf(rateLimits', key) = RateLimitOf(rateLimits, key)
          /\ UsedBefore(rlRet'.before, now) < RequestsPerMin => rlRet'.admitted
      ]_vars

\* GET openOrders is exhausted, and a call of DELETE openOrders, the same
\* path under another method, has just been admitted as the first of its
\* window.
C18_Witness ==
    /\ rlRet.op = "SendRateLimitedHTTPRequest"
    /\ rlRet.method = MethodDelete
    /\ rlRet.path = binanceOpenOrdersPath
    /\ rlRet.admitted
    /\ RateLimitKey(MethodGet, binanceOpenOrdersPath) \in DOMAIN rateLimits
    /\ rateLimits[RateLimitKey(MethodGet, binanceOpenOrdersPath)].RequestCount = RequestsPerMin
    /\ rateLimits[RateLimitKey(MethodGet, binanceOpenOrdersPath)].StartTime = now
    /\ rateLimits[RateLimitKey(MethodDelete, binanceOpenOrdersPath)].RequestCount = 1

----------------------------------------------------------------------------
(* The rate limiter under concurrent goroutines.  SendRateLimitedHTTPRequest *)
(* takes no lock: between any two of its reads and writes of b.rateLimits    *)
(* and of the rateLimitInfo it points to, another goroutine can run.  The    *)
(* local rateLimit is a pointer: it stays attached to the struct the map     *)
(* holds until another goroutine stores a new struct under the key, and      *)
(* from then on it refers to a struct of its own that nobody else sees.      *)

ConcEndpoint == RateLimitKey(MethodGet, binanceOpenOrdersPath)

\* The struct goroutine g's rateLimit points to.
Pointee(g) == IF frame[g].attached THEN rateLimits[ConcEndpoint] ELSE frame[g].own

\* The state after g writes w through its pointer.
WriteThrough(g, w) ==
    IF frame[g].attached
    THEN /\ rateLimits' = MapPut(rateLimits, ConcEndpoint, w)
         /\ frame' = frame
    ELSE /\ rateLimits' = rateLimits
         /\ frame' = [frame EXCEPT ![g].own = w]

HoldsPointer(g) == lpc[g] \notin {"idle", "lookup", "create"}

LimiterCall(g) ==
    /\ lpc[g] = "idle"
    /\ lpc' = [lpc EXCEPT ![g] = "lookup"]
    /\ frame' = [frame EXCEPT ![g] = NoFrame]
    /\ UNCHANGED <<storeSide, now, b, reqRet, rateLimits, rlRet>>

\* rateLimit := b.rateLimits[method+path]; if rateLimit == nil
LimiterLookup(g) ==
    /\ lpc[g] = "lookup"
    /\ lpc' = [lpc EXCEPT ![g] = IF ConcEndpoint \in DOMAIN rateLimits
                                 THEN "window" ELSE "create"]
    /\ UNCHANGED <<storeSide, now, b, reqRet, rateLimits, rlRet, frame>>

\* rateLimit = &rateLimitInfo{}; b.rateLimits[method+path] = rateLimit
LimiterCreate(g) ==
    /\ lpc[g] = "create"
    /\ rateLimits' = MapPut(rateLimits, ConcEndpoint, ZeroRateLimit)
    /\ frame' = [h \in Goroutines |->
                    IF h # g /\ HoldsPointer(h) /\ frame[h].attached
                    THEN [frame[h] EXCEPT !.attached = FALSE,
                                          !.own = rateLimits[ConcEndpoint]]
                    ELSE frame[h]]
    /\ lpc' = [lpc EXCEPT ![g] = "window"]
    /\ UNCHANGED <<storeSide, now, b, reqRet, rlRet>>

\* curTimeStamp := time.Now().Unix(); the test of the window
LimiterWindow(g) ==
    /\ lpc[g] = "window"
    /\ frame' = [frame EXCEPT ![g].cur = now]
    /\ lpc' = [lpc EXCEPT ![g] = IF WindowExpired(Pointee(g), now)
                                 THEN "resetCount" ELSE "budget"]
    /\ UNCHANGED <<storeSide, now, b, reqRet, rateLimits, rlRet>>

\* rateLimit.RequestCount = 0
LimiterResetCount(g) ==
    /\ lpc[g] = "resetCount"
    /\ WriteThrough(g, [Pointee(g) EXCEPT !.RequestCount = 0])
    /\ lpc' = [lpc EXCEPT ![g] = "resetStart"]
    /\ UNCHANGED <<storeSide, now, b, reqRet, rlRet>>

\* rateLimit.StartTime = curTimeStamp
LimiterResetStart(g) ==
    /\ lpc[g] = "resetStart"
    /\ WriteThrough(g, [Pointee(g) EXCEPT !.StartTime = frame[g].cur])
    /\ lpc' = [lpc EXCEPT ![g] = "budget"]
    /\ UNCHANGED <<storeSide, now, b, reqRet, rlRet>>

\* if rateLimit.RequestCount < requestsPerMin
LimiterBudget(g) ==
    /\ lpc[g] = "budget"
    /\ lpc' = [lpc EXCEPT ![g] = IF WithinBudget(Pointee(g), RequestsPerMin)
                                 THEN "load" ELSE "default"]
    /\ UNCHANGED <<storeSide, now, b, reqRet, rateLimits, rlRet, frame>>

\* rateLimit.RequestCount++ : the load
LimiterLoad(g) ==
    /\ lpc[g] = "load"
    /\ frame' = [frame EXCEPT ![g].loaded = Pointee(g).RequestCount]
    /\ lpc' = [lpc EXCEPT ![g] = "store"]
    /\ UNCHANGED <<storeSide, now, b, reqRet, rateLimits, rlRet>>

\* rateLimit.RequestCount++ : the store
LimiterStore(g) ==
    /\ lpc[g] = "store"
    /\ WriteThrough(g, [Pointee(g) EXCEPT !.RequestCount = frame[g].loaded + 1])
    /\ lpc' = [lpc EXCEPT ![g] = "send"]
    /\ UNCHANGED <<storeSide, now, b, reqRet, rlRet>>

\* _, err := b.SendHTTPRequest(method, path, params, true, result); return err
LimiterSend(g) ==
    /\ lpc[g] = "send"
    /\ lpc' = [lpc EXCEPT ![g] = "idle"]
    /\ UNCHANGED <<storeSide, now, b, reqRet, rateLimits, rlRet, frame>>

\* the else branch: set result to the default value; return
LimiterDefault(g) ==
    /\ lpc[g] = "default"
    /\ lpc' = [lpc EXCEPT ![g] = "idle"]
    /\ UNCHANGED <<storeSide, now, b, reqRet, rateLimits, rlRet, frame>>

LimiterConcNext ==
    \E g \in Goroutines :
        \/ LimiterCall(g)
        \/ LimiterLookup(g)
        \/ LimiterCreate(g)
        \/ LimiterWindow(g)
        \/ LimiterResetCount(g)
        \/ LimiterResetStart(g)
        \/ LimiterBudget(g)
        \/ LimiterLoad(g)
        \/ LimiterStore(g)
        \/ LimiterSend(g)
        \/ LimiterDefault(g)

SpecLimiterConc == Init /\ [][LimiterConcNext]_vars

(* C4: under any interleaving of concurrent callers on one endpoint key     *)
(* with one budget, the window's count never exceeds the budget, and so     *)
(* never more calls are admitted to the network path in a window than the   *)
(* budget allows.                                                           *)
C4_CountWithinBudget ==
    \A key \in DOMAIN rateLimits : rateLimits[key].RequestCount <= RequestsPerMin

====
